---- MODULE Spec2Model ----
(***************************************************************************)
(* Model of scripts/silero_generate.py: the rate-string parser, the SSML   *)
(* keyword mappers, the resampling time-stretch and the main() pipeline    *)
(* that loads the model, synthesises, quantises and writes the WAV file.   *)
(*                                                                         *)
(* Representation.  A Python str is a sequence of one-character strings.   *)
(* A multiplier (rate, pitch, time-stretch factor) is an integer number of *)
(* hundredths: 1.0 is 100, 0.6 is 60.  The thresholds of the script and    *)
(* every value 1.0 +/- N/100 lie on that grid, and on it the comparisons   *)
(* of the script give the same result as on IEEE doubles; the rounding of  *)
(* the last binary digit of a double is not represented.  A sample is an   *)
(* integer number of thousandths: 1.0 is 1000.                             *)
(***************************************************************************)
EXTENDS Integers, Sequences, FiniteSets, TLC

VARIABLES
    pc,             \* position in the script / in the function under call
    exit_code,      \* process exit status, None while running
    speaker_arg,    \* args.speaker
    rate_arg,       \* args.rate (also the argument of a parse_rate call)
    pitch_arg,      \* args.pitch
    stretch_arg,    \* args.time_stretch (also the factor of a time_stretch call)
    model_id,       \* parts[0]
    speaker,        \* parts[1]
    language,       \* language passed to torch.hub.load
    model_name,     \* speaker= passed to torch.hub.load
    rate_value,     \* multiplier returned by parse_rate / used by main
    pitch_value,    \* pitch multiplier used by main
    rate_kw,        \* keyword of the rate, None when not computed
    pitch_kw,       \* keyword of the pitch, None when not computed
    request,        \* the apply_tts call that was made, None before it
    audio,          \* the waveform: a sequence of samples
    pcm,            \* the int16 samples handed to wavfile.write
    loads,          \* number of torch.hub.load calls
    synths,         \* number of apply_tts calls
    mkdirs,         \* number of output directory creations
    writes,         \* number of wavfile.write calls
    resamples,      \* number of signal.resample calls
    failed_at,      \* the step that raised, None when none did
    environment     \* what the surroundings of the run will do (fixed per run)

vars == <<pc, exit_code, speaker_arg, rate_arg, pitch_arg, stretch_arg,
          model_id, speaker, language, model_name, rate_value, pitch_value,
          rate_kw, pitch_kw, request, audio, pcm,
          loads, synths, mkdirs, writes, resamples, failed_at, environment>>

None == "None"

\* no apply_tts call was made
NoRequest == [kind |-> "none", rate |-> None, pitch |-> None, speaker |-> <<>>]

----------------------------------------------------------------------------
(* Bounds of the model *)

\* longest rate string given to parse_rate
MaxRateLen == 5
\* the multipliers (hundredths) given to the keyword mappers go from
\* MaxBelowZero below 0 up to MaxCenti
MaxBelowZero == 20
MaxCenti == 220

\* characters a rate string is built from
RateAlphabet == {"+", "-", "%", "0", "2", "5", ".", "\n"}

RECURSIVE StringsUpTo(_, _)
StringsUpTo(alphabet, n) ==
    IF n = 0 THEN {<<>>}
    ELSE LET shorter == StringsUpTo(alphabet, n - 1)
         IN  shorter \cup {Append(s, c) : s \in {t \in shorter : Len(t) = n - 1},
                                          c \in alphabet}

RateStrings == StringsUpTo(RateAlphabet, MaxRateLen)
Multipliers == (0 - MaxBelowZero)..MaxCenti

----------------------------------------------------------------------------
(* parse_rate *)

\* \d on the characters of the alphabet
IsDigit(c) == c \in {"0", "1", "2", "3", "4", "5", "6", "7", "8", "9"}

DigitValue(c) ==
    CASE c = "0" -> 0 [] c = "1" -> 1 [] c = "2" -> 2 [] c = "3" -> 3
      [] c = "4" -> 4 [] c = "5" -> 5 [] c = "6" -> 6 [] c = "7" -> 7
      [] c = "8" -> 8 [] c = "9" -> 9

\* int(): the decimal value of a string of digits
RECURSIVE int(_)
int(digits) ==
    IF digits = <<>> THEN 0
    ELSE 10 * int(SubSeq(digits, 1, Len(digits) - 1)) + DigitValue(digits[Len(digits)])

\* \d+ is greedy: the position after the longest run of digits starting at i
RECURSIVE DigitRunEnd(_, _)
DigitRunEnd(s, i) ==
    IF i <= Len(s) /\ IsDigit(s[i]) THEN DigitRunEnd(s, i + 1) ELSE i

\* '$' of Python's re without MULTILINE: the end of the string, or just
\* before a newline that is the last character of the string
DollarAt(s, i) ==
    \/ i = Len(s) + 1
    \/ i = Len(s) /\ s[i] = "\n"

\* re.match(r'^([+-])(\d+)%$', s): whether it matches, and its groups.
\* '%' is not a digit, so only the greedy run of digits can be followed by it.
NoMatch == [matched |-> FALSE, group1 |-> "", group2 |-> <<>>]

re_match(s) ==
    IF Len(s) >= 1 /\ s[1] \in {"+", "-"}
    THEN LET e == DigitRunEnd(s, 2)
         IN  IF e > 2 /\ e <= Len(s) /\ s[e] = "%" /\ DollarAt(s, e + 1)
             THEN [matched |-> TRUE, group1 |-> s[1], group2 |-> SubSeq(s, 2, e - 1)]
             ELSE NoMatch
    ELSE NoMatch

\* parse_rate with the sign of the match ignored
parse_rate_unsigned(rate_str) ==
    IF rate_str = <<>> THEN 100
    ELSE LET match == re_match(rate_str)
         IN  IF match.matched THEN 100 + int(match.group2) ELSE 100

parse_rate(rate_str) ==
    IF rate_str = <<>> THEN 100
    ELSE LET match == re_match(rate_str)
         IN  IF match.matched
             THEN LET sign == match.group1
                      percent == int(match.group2)
                  IN  IF sign = "+" THEN 100 + percent ELSE 100 - percent
             ELSE 100

----------------------------------------------------------------------------
(* ssml_rate_to_keyword, ssml_pitch_to_keyword *)

ssml_rate_to_keyword(rate_v) ==
    IF rate_v <= 60 THEN "x-slow"
    ELSE IF rate_v <= 80 THEN "slow"
    ELSE IF rate_v <= 120 THEN "medium"
    ELSE IF rate_v <= 150 THEN "fast"
    ELSE "x-fast"

\* ssml_pitch_to_keyword with the first threshold exclusive
ssml_pitch_to_keyword_strict(pitch_v) ==
    IF pitch_v < 60 THEN "x-low"
    ELSE IF pitch_v <= 80 THEN "low"
    ELSE IF pitch_v <= 120 THEN "medium"
    ELSE IF pitch_v <= 150 THEN "high"
    ELSE "x-high"

ssml_pitch_to_keyword(pitch_v) ==
    IF pitch_v <= 60 THEN "x-low"
    ELSE IF pitch_v <= 80 THEN "low"
    ELSE IF pitch_v <= 120 THEN "medium"
    ELSE IF pitch_v <= 150 THEN "high"
    ELSE "x-high"

----------------------------------------------------------------------------
(* wrap_with_ssml *)

\* truth value of a Python float: 0.0 is false
Truthy(v) == v # 0

\* wrap_with_ssml testing its arguments against None instead of their truth
wrap_with_ssml_not_none(rate, pitch) ==
    LET r_kw == ssml_rate_to_keyword(rate)
        p_kw == ssml_pitch_to_keyword(pitch)
        needs_wrap == r_kw # "medium" \/ p_kw # "medium"
    IN  IF ~needs_wrap
        THEN [use_ssml |-> FALSE, rate |-> None, pitch |-> None,
              rate_kw |-> r_kw, pitch_kw |-> p_kw]
        ELSE [use_ssml |-> TRUE,
              rate  |-> IF r_kw # "medium" THEN r_kw ELSE None,
              pitch |-> IF p_kw # "medium" THEN p_kw ELSE None,
              rate_kw |-> r_kw, pitch_kw |-> p_kw]

\* The SSML text is represented by the attributes of its <prosody> tag (None
\* for an attribute that is left out); the wrapped text itself is args.text.
wrap_with_ssml(rate, pitch) ==
    LET r_kw == IF Truthy(rate) THEN ssml_rate_to_keyword(rate) ELSE None
        p_kw == IF Truthy(pitch) THEN ssml_pitch_to_keyword(pitch) ELSE None
        needs_wrap == \/ (r_kw # None /\ r_kw # "medium")
                      \/ (p_kw # None /\ p_kw # "medium")
    IN  IF ~needs_wrap
        THEN [use_ssml |-> FALSE, rate |-> None, pitch |-> None,
              rate_kw |-> r_kw, pitch_kw |-> p_kw]
        ELSE [use_ssml |-> TRUE,
              rate  |-> IF r_kw # None /\ r_kw # "medium" THEN r_kw ELSE None,
              pitch |-> IF p_kw # None /\ p_kw # "medium" THEN p_kw ELSE None,
              rate_kw |-> r_kw, pitch_kw |-> p_kw]

----------------------------------------------------------------------------
(* time_stretch *)

Abs(n) == IF n < 0 THEN 0 - n ELSE n

\* int(): n / d truncated toward zero
Trunc(n, d) ==
    IF (n >= 0) = (d > 0) THEN Abs(n) \div Abs(d) ELSE 0 - (Abs(n) \div Abs(d))

\* new_length with round() in place of int()
new_length_rounded(len, factor) == Trunc(2 * 100 * len + factor, 2 * factor)

\* int(len(audio) / factor), factor in hundredths and not 0.  On the lengths
\* and factors explored here the double quotient truncates to the same
\* integer as the exact one.  (Outside them a quotient that is mathematically
\* a whole number can come out just below it: int(7 / 0.07) is 99.)
new_length(len, factor) == Trunc(100 * len, factor)

\* values of the samples signal.resample gives back
ResampleSamples == {-1200, 0, 700}

\* signal.resample(x, num): raises for a negative num, gives back num samples
\* for a positive one.  For num = 0 it raises or gives an empty array,
\* according to the version of the library.  The values of the samples are
\* the library's; the outcomes here are the waveforms of one repeated value.
resample(x, num) ==
    IF num < 0 THEN {[raised |-> TRUE, audio |-> <<>>, resampled |-> 1]}
    ELSE IF num = 0
    THEN {[raised |-> TRUE, audio |-> <<>>, resampled |-> 1],
          [raised |-> FALSE, audio |-> <<>>, resampled |-> 1]}
    ELSE {[raised |-> FALSE, audio |-> [i \in 1..num |-> v], resampled |-> 1] :
             v \in ResampleSamples}

\* time_stretch without the test of factor == 1.0
time_stretch_always(x, factor) ==
    IF factor = 0 THEN {[raised |-> TRUE, audio |-> <<>>, resampled |-> 0]}
    ELSE resample(x, new_length(Len(x), factor))

\* the outcomes of time_stretch(audio, factor); factor = 0 raises
\* ZeroDivisionError
time_stretch(x, factor) ==
    IF factor = 100 THEN {[raised |-> FALSE, audio |-> x, resampled |-> 0]}
    ELSE IF factor = 0 THEN {[raised |-> TRUE, audio |-> <<>>, resampled |-> 0]}
    ELSE resample(x, new_length(Len(x), factor))

----------------------------------------------------------------------------
(* Quantisation: (audio * 32767).astype(np.int16) *)

\* the product rounded to the nearest integer instead of truncated
Scaled_rounded(sample) ==
    IF sample >= 0 THEN Trunc(2 * sample * 32767 + 1000, 2000)
    ELSE 0 - Trunc(2 * (0 - sample) * 32767 + 1000, 2000)

\* sample * 32767 with the fraction dropped; the sample is in thousandths
Scaled(sample) == Trunc(sample * 32767, 1000)

InInt16(t) == -32768 <= t /\ t <= 32767

Wrap16(t) == ((t + 32768) % 65536) - 32768

Saturate16(t) == IF t > 32767 THEN 32767 ELSE IF t < -32768 THEN -32768 ELSE t

\* astype(np.int16) of a float: a C conversion, which is undefined when the
\* truncated value does not fit.  Builds differ in what they then produce:
\* the low 16 bits of a wider integer, or the nearest end of the range.
astype_int16(sample, cast) ==
    LET t == Scaled(sample)
    IN  IF InInt16(t) THEN t
        ELSE IF cast = "wrap" THEN Wrap16(t) ELSE Saturate16(t)

quantize(x, cast) == [i \in 1..Len(x) |-> astype_int16(x[i], cast)]

----------------------------------------------------------------------------
(* Speaker path and language *)

\* s.split('/'): the segments between the separators
RECURSIVE split(_, _)
split(s, sep) ==
    IF \A i \in 1..Len(s) : s[i] # sep THEN <<s>>
    ELSE LET k == CHOOSE i \in 1..Len(s) :
                      s[i] = sep /\ \A j \in 1..(i - 1) : s[j] # sep
         IN  <<SubSeq(s, 1, k - 1)>> \o split(SubSeq(s, k + 1, Len(s)), sep)

\* sub in s
Contains(s, sub) ==
    \E i \in 1..(Len(s) - Len(sub) + 1) : SubSeq(s, i, i + Len(sub) - 1) = sub

\* select_language falling back to Russian instead of raising
select_language_default(mid) ==
    IF Contains(mid, <<"e", "n">>) /\ ~Contains(mid, <<"r", "u">>)
    THEN [ok |-> TRUE, language |-> "en", model_name |-> "v3_en"]
    ELSE [ok |-> TRUE, language |-> "ru", model_name |-> "v5_ru"]

\* select_language testing 'en' before 'ru'
select_language_en_first(mid) ==
    IF Contains(mid, <<"e", "n">>)
    THEN [ok |-> TRUE, language |-> "en", model_name |-> "v3_en"]
    ELSE IF Contains(mid, <<"r", "u">>)
    THEN [ok |-> TRUE, language |-> "ru", model_name |-> "v5_ru"]
    ELSE [ok |-> FALSE, language |-> None, model_name |-> None]

\* lines 130-137: the language and the model loaded for a model id
select_language(mid) ==
    IF Contains(mid, <<"r", "u">>)
    THEN [ok |-> TRUE, language |-> "ru", model_name |-> "v5_ru"]
    ELSE IF Contains(mid, <<"e", "n">>)
    THEN [ok |-> TRUE, language |-> "en", model_name |-> "v3_en"]
    ELSE [ok |-> FALSE, language |-> None, model_name |-> None]

----------------------------------------------------------------------------
(* Calls of the pure functions on their own *)

DefaultEnvironment == [argv |-> "valid", cast |-> "wrap", waveform |-> <<>>]

Idle ==
    /\ exit_code = None /\ speaker_arg = <<>> /\ pitch_arg = 100
    /\ model_id = <<>> /\ speaker = <<>> /\ language = None /\ model_name = None
    /\ request = NoRequest /\ pcm = <<>>
    /\ loads = 0 /\ synths = 0 /\ mkdirs = 0 /\ writes = 0 /\ resamples = 0
    /\ failed_at = None

InitParse ==
    /\ Idle
    /\ pc = "call_parse_rate"
    /\ environment = DefaultEnvironment
    /\ rate_arg \in RateStrings
    /\ rate_value = None /\ pitch_value = None
    /\ rate_kw = None /\ pitch_kw = None
    /\ stretch_arg = 100 /\ audio = <<>>

CallParseRate ==
    /\ pc = "call_parse_rate"
    /\ rate_value' = parse_rate(rate_arg)
    /\ pc' = "parse_rate_returned"
    /\ UNCHANGED <<exit_code, speaker_arg, rate_arg, pitch_arg, stretch_arg,
                   model_id, speaker, language, model_name, pitch_value,
                   rate_kw, pitch_kw, request, audio, pcm, loads, synths,
                   mkdirs, writes, resamples, failed_at, environment>>

NextParse == CallParseRate

SpecParse == InitParse /\ [][NextParse]_vars

InitKeyword ==
    /\ Idle
    /\ pc = "call_keyword"
    /\ environment = DefaultEnvironment
    /\ rate_arg = <<>>
    /\ rate_value \in Multipliers /\ pitch_value \in Multipliers
    /\ rate_kw = None /\ pitch_kw = None
    /\ stretch_arg = 100 /\ audio = <<>>

CallRateKeyword ==
    /\ pc = "call_keyword"
    /\ rate_kw = None
    /\ rate_kw' = ssml_rate_to_keyword(rate_value)
    /\ UNCHANGED <<pc, exit_code, speaker_arg, rate_arg, pitch_arg,
                   stretch_arg, model_id, speaker, language, model_name,
                   rate_value, pitch_value, pitch_kw, request, audio, pcm,
                   loads, synths, mkdirs, writes, resamples, failed_at,
                   environment>>

CallPitchKeyword ==
    /\ pc = "call_keyword"
    /\ pitch_kw = None
    /\ pitch_kw' = ssml_pitch_to_keyword(pitch_value)
    /\ UNCHANGED <<pc, exit_code, speaker_arg, rate_arg, pitch_arg,
                   stretch_arg, model_id, speaker, language, model_name,
                   rate_value, pitch_value, rate_kw, request, audio, pcm,
                   loads, synths, mkdirs, writes, resamples, failed_at,
                   environment>>

NextKeyword == CallRateKeyword \/ CallPitchKeyword

SpecKeyword == InitKeyword /\ [][NextKeyword]_vars


\* longest waveform given to time_stretch, besides the 1000-sample one
MaxAudioLen == 3
\* smallest and largest factor (hundredths) given to time_stretch
MinFactor == 40
MaxFactor == 250

StretchLengths == (0..MaxAudioLen) \cup {1000}
StretchInputs == {[i \in 1..len |-> v] : len \in StretchLengths, v \in {-500, 1000}}
StretchFactors == MinFactor..MaxFactor

InitStretch ==
    /\ Idle
    /\ pc = "call_time_stretch"
    /\ environment \in [argv : {"valid"}, cast : {"wrap"}, waveform : StretchInputs]
    /\ rate_arg = <<>>
    /\ rate_value = None /\ pitch_value = None
    /\ rate_kw = None /\ pitch_kw = None
    /\ stretch_arg \in StretchFactors /\ audio = <<>>

CallTimeStretch ==
    /\ pc = "call_time_stretch"
    /\ \E r \in time_stretch(environment.waveform, stretch_arg) :
          /\ ~r.raised
          /\ audio' = r.audio
          /\ resamples' = resamples + r.resampled
    /\ pc' = "time_stretch_returned"
    /\ UNCHANGED <<exit_code, speaker_arg, rate_arg, pitch_arg, stretch_arg,
                   model_id, speaker, language, model_name, rate_value,
                   pitch_value, rate_kw, pitch_kw, request, pcm, loads,
                   synths, mkdirs, writes, failed_at, environment>>

CallTimeStretchRaises ==
    /\ pc = "call_time_stretch"
    /\ \E r \in time_stretch(environment.waveform, stretch_arg) :
          /\ r.raised
          /\ resamples' = resamples + r.resampled
    /\ pc' = "time_stretch_raised"
    /\ UNCHANGED <<exit_code, speaker_arg, rate_arg, pitch_arg, stretch_arg,
                   model_id, speaker, language, model_name, rate_value,
                   pitch_value, rate_kw, pitch_kw, request, audio, pcm,
                   loads, synths, mkdirs, writes, failed_at, environment>>

NextStretch == CallTimeStretch \/ CallTimeStretchRaises

SpecStretch == InitStretch /\ [][NextStretch]_vars

----------------------------------------------------------------------------
(* The script: module imports, then sys.exit(main()) *)

\* the except clause of main (or of an import guard): the run ends with 1
Fail(step) ==
    /\ pc' = "exited"
    /\ exit_code' = 1
    /\ failed_at' = step

ImportTorch ==
    /\ pc = "import_torch"
    /\ pc' = "import_scipy"
    /\ UNCHANGED <<exit_code, speaker_arg, rate_arg, pitch_arg, stretch_arg,
                   model_id, speaker, language, model_name, rate_value,
                   pitch_value, rate_kw, pitch_kw, request, audio, pcm,
                   loads, synths, mkdirs, writes, resamples, failed_at,
                   environment>>

ImportTorchFails ==
    /\ pc = "import_torch"
    /\ Fail("import_torch")
    /\ UNCHANGED <<speaker_arg, rate_arg, pitch_arg, stretch_arg, model_id,
                   speaker, language, model_name, rate_value, pitch_value,
                   rate_kw, pitch_kw, request, audio, pcm, loads, synths,
                   mkdirs, writes, resamples, environment>>

ImportScipy ==
    /\ pc = "import_scipy"
    /\ pc' = "parse_args"
    /\ UNCHANGED <<exit_code, speaker_arg, rate_arg, pitch_arg, stretch_arg,
                   model_id, speaker, language, model_name, rate_value,
                   pitch_value, rate_kw, pitch_kw, request, audio, pcm,
                   loads, synths, mkdirs, writes, resamples, failed_at,
                   environment>>

ImportScipyFails ==
    /\ pc = "import_scipy"
    /\ Fail("import_scipy")
    /\ UNCHANGED <<speaker_arg, rate_arg, pitch_arg, stretch_arg, model_id,
                   speaker, language, model_name, rate_value, pitch_value,
                   rate_kw, pitch_kw, request, audio, pcm, loads, synths,
                   mkdirs, writes, resamples, environment>>

\* parser.parse_args() on a valid command line
ParseArgs ==
    /\ pc = "parse_args"
    /\ environment.argv = "valid"
    /\ pc' = "speaker"
    /\ UNCHANGED <<exit_code, speaker_arg, rate_arg, pitch_arg, stretch_arg,
                   model_id, speaker, language, model_name, rate_value,
                   pitch_value, rate_kw, pitch_kw, request, audio, pcm,
                   loads, synths, mkdirs, writes, resamples, failed_at,
                   environment>>

\* parse_args inside the try of main: its failure handled like the others
ParseArgsError_caught ==
    /\ pc = "parse_args"
    /\ environment.argv = "invalid"
    /\ pc' = "exited"
    /\ exit_code' = 1
    /\ failed_at' = "parse_args"
    /\ UNCHANGED <<speaker_arg, rate_arg, pitch_arg, stretch_arg, model_id,
                   speaker, language, model_name, rate_value, pitch_value,
                   rate_kw, pitch_kw, request, audio, pcm, loads, synths,
                   mkdirs, writes, resamples, environment>>

\* parser.parse_args() calls parser.error() on a missing or ill-typed
\* argument: usage on standard error and sys.exit(2), outside the try of main
ParseArgsError ==
    /\ pc = "parse_args"
    /\ environment.argv = "invalid"
    /\ pc' = "exited"
    /\ exit_code' = 2
    /\ failed_at' = "parse_args"
    /\ UNCHANGED <<speaker_arg, rate_arg, pitch_arg, stretch_arg, model_id,
                   speaker, language, model_name, rate_value, pitch_value,
                   rate_kw, pitch_kw, request, audio, pcm, loads, synths,
                   mkdirs, writes, resamples, environment>>

\* -h / --help: the help text and sys.exit(0)
ParseArgsHelp ==
    /\ pc = "parse_args"
    /\ environment.argv = "help"
    /\ pc' = "exited"
    /\ exit_code' = 0
    /\ UNCHANGED <<speaker_arg, rate_arg, pitch_arg, stretch_arg, model_id,
                   speaker, language, model_name, rate_value, pitch_value,
                   rate_kw, pitch_kw, request, audio, pcm, loads, synths,
                   mkdirs, writes, resamples, failed_at, environment>>

RejectSpeaker ==
    /\ pc = "speaker"
    /\ Len(split(speaker_arg, "/")) # 2
    /\ Fail("speaker")
    /\ UNCHANGED <<speaker_arg, rate_arg, pitch_arg, stretch_arg, model_id,
                   speaker, language, model_name, rate_value, pitch_value,
                   rate_kw, pitch_kw, request, audio, pcm, loads, synths,
                   mkdirs, writes, resamples, environment>>

RejectLanguage ==
    /\ pc = "speaker"
    /\ LET parts == split(speaker_arg, "/")
       IN  /\ Len(parts) = 2
           /\ ~select_language(parts[1]).ok
           /\ model_id' = parts[1]
           /\ speaker' = parts[2]
    /\ Fail("language")
    /\ UNCHANGED <<speaker_arg, rate_arg, pitch_arg, stretch_arg, language,
                   model_name, rate_value, pitch_value, rate_kw, pitch_kw,
                   request, audio, pcm, loads, synths, mkdirs, writes,
                   resamples, environment>>

SelectModel ==
    /\ pc = "speaker"
    /\ LET parts == split(speaker_arg, "/")
       IN  /\ Len(parts) = 2
           /\ select_language(parts[1]).ok
           /\ model_id' = parts[1]
           /\ speaker' = parts[2]
           /\ language' = select_language(parts[1]).language
           /\ model_name' = select_language(parts[1]).model_name
    /\ pc' = "load"
    /\ UNCHANGED <<exit_code, speaker_arg, rate_arg, pitch_arg, stretch_arg,
                   rate_value, pitch_value, rate_kw, pitch_kw, request,
                   audio, pcm, loads, synths, mkdirs, writes, resamples,
                   failed_at, environment>>

\* torch.hub.load(...) and model.to(device)
LoadModel ==
    /\ pc = "load"
    /\ loads' = loads + 1
    /\ pc' = "synthesize"
    /\ UNCHANGED <<exit_code, speaker_arg, rate_arg, pitch_arg, stretch_arg,
                   model_id, speaker, language, model_name, rate_value,
                   pitch_value, rate_kw, pitch_kw, request, audio, pcm,
                   synths, mkdirs, writes, resamples, failed_at, environment>>

LoadModelFails ==
    /\ pc = "load"
    /\ loads' = loads + 1
    /\ Fail("load")
    /\ UNCHANGED <<speaker_arg, rate_arg, pitch_arg, stretch_arg, model_id,
                   speaker, language, model_name, rate_value, pitch_value,
                   rate_kw, pitch_kw, request, audio, pcm, synths, mkdirs,
                   writes, resamples, environment>>

\* lines 156-161: the multipliers and the request built from them
main_rate_value == IF rate_arg # <<>> THEN parse_rate(rate_arg) ELSE 100

main_request ==
    LET w == wrap_with_ssml(main_rate_value, pitch_arg)
    IN  [kind |-> IF w.use_ssml THEN "ssml" ELSE "text",
         rate |-> w.rate, pitch |-> w.pitch, speaker |-> speaker]

BuildRequest ==
    /\ rate_value' = main_rate_value
    /\ pitch_value' = pitch_arg
    /\ rate_kw' = wrap_with_ssml(main_rate_value, pitch_arg).rate_kw
    /\ pitch_kw' = wrap_with_ssml(main_rate_value, pitch_arg).pitch_kw
    /\ request' = main_request
    /\ synths' = synths + 1

\* model.apply_tts(...) gives back the waveform
Synthesize ==
    /\ pc = "synthesize"
    /\ BuildRequest
    /\ audio' = environment.waveform
    /\ pc' = "mkdir"
    /\ UNCHANGED <<exit_code, speaker_arg, rate_arg, pitch_arg, stretch_arg,
                   model_id, speaker, language, model_name, pcm, loads,
                   mkdirs, writes, resamples, failed_at, environment>>

SynthesizeFails ==
    /\ pc = "synthesize"
    /\ BuildRequest
    /\ Fail("synthesize")
    /\ UNCHANGED <<speaker_arg, rate_arg, pitch_arg, stretch_arg, model_id,
                   speaker, language, model_name, audio, pcm, loads, mkdirs,
                   writes, resamples, environment>>

\* output_path.parent.mkdir(parents=True, exist_ok=True)
MakeOutputDir ==
    /\ pc = "mkdir"
    /\ mkdirs' = mkdirs + 1
    /\ pc' = "post_process"
    /\ UNCHANGED <<exit_code, speaker_arg, rate_arg, pitch_arg, stretch_arg,
                   model_id, speaker, language, model_name, rate_value,
                   pitch_value, rate_kw, pitch_kw, request, audio, pcm,
                   loads, synths, writes, resamples, failed_at, environment>>

MakeOutputDirFails ==
    /\ pc = "mkdir"
    /\ mkdirs' = mkdirs + 1
    /\ Fail("mkdir")
    /\ UNCHANGED <<speaker_arg, rate_arg, pitch_arg, stretch_arg, model_id,
                   speaker, language, model_name, rate_value, pitch_value,
                   rate_kw, pitch_kw, request, audio, pcm, loads, synths,
                   writes, resamples, environment>>

\* lines 183-197: the time stretch when args.time_stretch != 1.0, then the
\* quantisation of what it gave back
stretched ==
    IF stretch_arg # 100 THEN time_stretch(audio, stretch_arg)
    ELSE {[raised |-> FALSE, audio |-> audio, resampled |-> 0]}

PostProcess ==
    /\ pc = "post_process"
    /\ \E r \in stretched :
          /\ ~r.raised
          /\ audio' = r.audio
          /\ resamples' = resamples + r.resampled
          /\ pcm' = quantize(r.audio, environment.cast)
    /\ pc' = "write"
    /\ UNCHANGED <<exit_code, speaker_arg, rate_arg, pitch_arg, stretch_arg,
                   model_id, speaker, language, model_name, rate_value,
                   pitch_value, rate_kw, pitch_kw, request, loads, synths,
                   mkdirs, writes, failed_at, environment>>

PostProcessFails ==
    /\ pc = "post_process"
    /\ \E r \in stretched :
          /\ r.raised
          /\ resamples' = resamples + r.resampled
    /\ Fail("time_stretch")
    /\ UNCHANGED <<speaker_arg, rate_arg, pitch_arg, stretch_arg, model_id,
                   speaker, language, model_name, rate_value, pitch_value,
                   rate_kw, pitch_kw, request, audio, pcm, loads, synths,
                   mkdirs, writes, environment>>

\* wavfile.write(...), return 0 and sys.exit(0)
WriteWav ==
    /\ pc = "write"
    /\ writes' = writes + 1
    /\ pc' = "exited"
    /\ exit_code' = 0
    /\ UNCHANGED <<speaker_arg, rate_arg, pitch_arg, stretch_arg, model_id,
                   speaker, language, model_name, rate_value, pitch_value,
                   rate_kw, pitch_kw, request, audio, pcm, loads, synths,
                   mkdirs, resamples, failed_at, environment>>

WriteWavFails ==
    /\ pc = "write"
    /\ writes' = writes + 1
    /\ Fail("write")
    /\ UNCHANGED <<speaker_arg, rate_arg, pitch_arg, stretch_arg, model_id,
                   speaker, language, model_name, rate_value, pitch_value,
                   rate_kw, pitch_kw, request, audio, pcm, loads, synths,
                   mkdirs, resamples, environment>>

Next ==
    \/ ImportTorch \/ ImportTorchFails
    \/ ImportScipy \/ ImportScipyFails
    \/ ParseArgs \/ ParseArgsError \/ ParseArgsHelp
    \/ RejectSpeaker \/ RejectLanguage \/ SelectModel
    \/ LoadModel \/ LoadModelFails
    \/ Synthesize \/ SynthesizeFails
    \/ MakeOutputDir \/ MakeOutputDirFails
    \/ PostProcess \/ PostProcessFails
    \/ WriteWav \/ WriteWavFails

\* the state before the first import
Start ==
    /\ pc = "import_torch"
    /\ exit_code = None
    /\ model_id = <<>> /\ speaker = <<>> /\ language = None /\ model_name = None
    /\ rate_value = None /\ pitch_value = None /\ rate_kw = None /\ pitch_kw = None
    /\ request = NoRequest /\ audio = <<>> /\ pcm = <<>>
    /\ loads = 0 /\ synths = 0 /\ mkdirs = 0 /\ writes = 0 /\ resamples = 0
    /\ failed_at = None

\* the command lines and the surroundings of the runs that are explored
\* longest waveform the model gives back
MaxSynthLen == 2
SynthSamples == {-2000, -1001, -1000, -500, -1, 0, 500, 1000, 1001}
RunSpeakers ==
    { <<"r", "u", "/", "n">>, <<"3", "e", "n", "/", "e">>,
      <<"e", "n", "r", "u", "/", "3">>, <<"r", "u">>,
      <<"r", "u", "/", "e", "/">>, <<"3", "/", "r", "u">>, <<>> }
RunRates ==
    { <<>>, <<"+", "1", "0", "%">>, <<"+", "2", "0", "%">>, <<"+", "2", "1", "%">>,
      <<"+", "5", "0", "%">>, <<"-", "2", "5", "%">>, <<"-", "1", "0", "0", "%">>,
      <<"1", ".", "5">> }
RunPitches == {0, 50, 60, 61, 100, 110, 120, 121, 180}
RunStretches == {100, 200, 150, 70, 0, -100}
RunWaveforms == StringsUpTo(SynthSamples, MaxSynthLen)

Init ==
    /\ Start
    /\ \/ /\ environment \in [argv : {"valid"}, cast : {"wrap", "saturate"},
                              waveform : {<<>>, <<500>>, <<-1001, 1000>>}]
          /\ speaker_arg \in RunSpeakers
          /\ rate_arg \in RunRates
          /\ pitch_arg \in RunPitches
          /\ stretch_arg \in {100}
       \/ /\ environment \in [argv : {"valid"}, cast : {"wrap", "saturate"},
                              waveform : RunWaveforms]
          /\ speaker_arg \in {<<"r", "u", "/", "n">>}
          /\ rate_arg \in {<<>>}
          /\ pitch_arg \in {100}
          /\ stretch_arg \in RunStretches
       \/ /\ environment \in [argv : {"invalid", "help"}, cast : {"wrap"},
                              waveform : {<<>>}]
          /\ speaker_arg = <<>> /\ rate_arg = <<>>
          /\ pitch_arg = 100 /\ stretch_arg = 100

Spec == Init /\ [][Next]_vars

\* longest --speaker argument
MaxSpeakerLen == 6
SpeakerAlphabet == {"r", "u", "e", "n", "/", "3"}
SpeakerStrings == StringsUpTo(SpeakerAlphabet, MaxSpeakerLen)

InitSpeaker ==
    /\ Start
    /\ rate_arg = <<>>
    /\ \/ /\ environment = [argv |-> "valid", cast |-> "wrap", waveform |-> <<500>>]
          /\ speaker_arg \in SpeakerStrings
          /\ pitch_arg = 100
          /\ stretch_arg = 100
       \/ /\ environment \in [argv : {"valid", "invalid", "help"}, cast : {"wrap"},
                              waveform : {<<500>>}]
          /\ speaker_arg = <<"3", "e", "n", "/", "e">>
          /\ pitch_arg = 180
          /\ stretch_arg \in {200, 0}

SpecSpeaker == InitSpeaker /\ [][Next]_vars

\* time_stretch called on its own, and the whole script
SpecIdentity == (InitStretch \/ Init) /\ [][NextStretch \/ Next]_vars

----------------------------------------------------------------------------
(* Properties *)

\* a sign, then one or more decimal digits, then '%', and nothing else
WellFormedRate(s) ==
    /\ Len(s) >= 3
    /\ s[1] \in {"+", "-"}
    /\ s[Len(s)] = "%"
    /\ \A i \in 2..(Len(s) - 1) : s[i] \in {"0", "1", "2", "3", "4", "5", "6", "7", "8", "9"}

DecimalDigits == <<"0", "1", "2", "3", "4", "5", "6", "7", "8", "9">>

\* the number N written by the digits of a well-formed rate string
PercentOf(s) ==
    LET value[i \in 1..(Len(s) - 1)] ==
            IF i = 1 THEN 0
            ELSE 10 * value[i - 1] + (CHOOSE d \in 0..9 : DecimalDigits[d + 1] = s[i])
    IN  value[Len(s) - 1]

\* C1: for every rate string made of a sign, one or more decimal digits N and
\* '%', parse_rate returns 1 + N/100 for '+' and 1 - N/100 for '-' (in
\* hundredths: 100 + N and 100 - N), also for N = 0 and for N > 100.
C1_ParseRateValue ==
    (pc = "parse_rate_returned" /\ WellFormedRate(rate_arg))
        => rate_value = IF rate_arg[1] = "+" THEN 100 + PercentOf(rate_arg)
                        ELSE 100 - PercentOf(rate_arg)

\* parse_rate('-250%') returned -1.5
C1_Witness ==
    /\ pc = "parse_rate_returned"
    /\ rate_arg = <<"-", "2", "5", "0", "%">>
    /\ rate_value = -150

\* C2: for every rate string that is empty or is not a sign, digits and '%'
\* with nothing before or after, parse_rate returns the identity multiplier
\* 1.0 (100 hundredths).
C2_MalformedIsIdentity ==
    (pc = "parse_rate_returned" /\ ~WellFormedRate(rate_arg)) => rate_value = 100

\* the level of a multiplier: 1 (lowest) to 5 (top), upper thresholds inclusive
LevelOf(m) ==
    CASE m <= 60 -> 1
      [] 60 < m /\ m <= 80 -> 2
      [] 80 < m /\ m <= 120 -> 3
      [] 120 < m /\ m <= 150 -> 4
      [] m > 150 -> 5

RateLevels == <<"x-slow", "slow", "medium", "fast", "x-fast">>
PitchLevels == <<"x-low", "low", "medium", "high", "x-high">>

\* C3: the two mappers put every multiplier in exactly one of five ordered
\* levels with inclusive upper thresholds 0.6, 0.8, 1.2, 1.5; a larger
\* multiplier never gets a lower level; 1.0 gives medium; pitch 1.8 gives
\* x-high.
C3_ThresholdsMonotonic ==
    /\ rate_kw # None => rate_kw = RateLevels[LevelOf(rate_value)]
    /\ pitch_kw # None => pitch_kw = PitchLevels[LevelOf(pitch_value)]
    /\ (rate_kw # None /\ pitch_kw # None) =>
          \A i, j \in 1..5 :
             (RateLevels[i] = rate_kw /\ PitchLevels[j] = pitch_kw) =>
                 /\ rate_value <= pitch_value => i <= j
                 /\ pitch_value <= rate_value => j <= i
    /\ (rate_kw # None /\ rate_value = 100) => rate_kw = "medium"
    /\ (pitch_kw # None /\ pitch_value = 100) => pitch_kw = "medium"
    /\ (pitch_kw # None /\ pitch_value = 180) => pitch_kw = "x-high"

\* rate 0.8 was mapped to slow (the threshold is inclusive) and pitch 1.8 to
\* x-high
C3_Witness ==
    /\ pc = "call_keyword"
    /\ rate_value = 80 /\ rate_kw = "slow"
    /\ pitch_value = 180 /\ pitch_kw = "x-high"

\* C4 as stated: time_stretch with a positive factor f returns round(L / f)
\* samples, a nearest integer of L / f.
C4_RoundedLength ==
    (pc = "time_stretch_returned" /\ stretch_arg > 0)
        => 2 * Abs(Len(audio) * stretch_arg - 100 * Len(environment.waveform))
              <= stretch_arg

\* C4 amended: time_stretch with a positive factor f other than 1.0 returns
\* int(L / f) samples, the quotient truncated toward zero (the largest
\* integer not above L / f); with f = 1.0 it returns the L samples it got.
C4_TruncatedLength ==
    (pc = "time_stretch_returned" /\ stretch_arg > 0)
        => /\ Len(audio) * stretch_arg <= 100 * Len(environment.waveform)
           /\ (Len(audio) + 1) * stretch_arg > 100 * Len(environment.waveform)

\* 1000 samples stretched by 1.5 came back as 666 samples, not 667
C4_Witness ==
    /\ pc = "time_stretch_returned"
    /\ Len(environment.waveform) = 1000
    /\ stretch_arg = 150
    /\ Len(audio) = 666

\* C5: time_stretch with factor 1.0 returns the waveform it was given, same
\* length and same samples, and does not resample; main with --time-stretch
\* 1.0 hands the synthesised waveform to the quantisation unchanged.
C5_FactorOneIsIdentity ==
    /\ (pc = "time_stretch_returned" /\ stretch_arg = 100)
          => (audio = environment.waveform /\ resamples = 0)
    /\ pc = "time_stretch_raised" => stretch_arg # 100
    /\ (pc = "write" /\ stretch_arg = 100)
          => /\ audio = environment.waveform
             /\ resamples = 0
             /\ Len(pcm) = Len(environment.waveform)

\* time_stretch(audio, 1.0) returned on a waveform of two samples
C5_Witness ==
    /\ pc = "time_stretch_returned"
    /\ stretch_arg = 100
    /\ Len(environment.waveform) = 2
    /\ audio = environment.waveform

\* C6 as stated: a run ends with exit code 0 when the file was written and
\* with 1 on every failure, whichever step failed; no other exit code.
C6_ExitZeroOrOne ==
    pc = "exited" =>
        /\ exit_code \in {0, 1}
        /\ failed_at # None => exit_code = 1
        /\ (failed_at = None /\ writes = 1) => exit_code = 0

FailingSteps ==
    {"import_torch", "import_scipy", "speaker", "language", "load",
     "synthesize", "mkdir", "time_stretch", "write"}

\* C6 amended: a run ends with exit code 2 when the parsing of the command
\* line fails, with 1 when an import fails or a step of main after the
\* parsing raises, and with 0 otherwise, which is when the file was written
\* or when the help was asked for; no other exit code.
C6_ExitCodes ==
    pc = "exited" =>
        /\ exit_code \in {0, 1, 2}
        /\ exit_code = 2 <=> failed_at = "parse_args"
        /\ exit_code = 1 <=> failed_at \in FailingSteps
        /\ exit_code = 0 <=> failed_at = None
        /\ exit_code = 0 => (writes = 1 \/ environment.argv = "help")
        /\ (environment.argv = "help" /\ failed_at = None) => writes = 0

\* a command line that argparse rejects ended the run with exit code 2
C6_Witness ==
    /\ pc = "exited"
    /\ environment.argv = "invalid"
    /\ failed_at = "parse_args"
    /\ exit_code = 2

Adjusts(m) == m # 0 /\ (m <= 80 \/ m > 120)

SlashCount(s) == Cardinality({i \in 1..Len(s) : s[i] = "/"})

\* the part of s before its first '/'
BeforeSlash(s) ==
    SubSeq(s, 1, (CHOOSE i \in 1..Len(s) :
                      s[i] = "/" /\ \A j \in 1..(i - 1) : s[j] # "/") - 1)

\* the part of s after its first '/'
AfterSlash(s) ==
    SubSeq(s, (CHOOSE i \in 1..Len(s) :
                   s[i] = "/" /\ \A j \in 1..(i - 1) : s[j] # "/") + 1, Len(s))

HasPair(s, a, b) == \E i \in 1..(Len(s) - 1) : s[i] = a /\ s[i + 1] = b

\* the speaker argument is not two segments, or its model id has no language
BadSpeaker ==
    \/ SlashCount(speaker_arg) # 1
    \/ /\ ~HasPair(BeforeSlash(speaker_arg), "r", "u")
       /\ ~HasPair(BeforeSlash(speaker_arg), "e", "n")

\* C8: a speaker argument that is not exactly two segments, or whose model
\* id has no language token, is rejected before the model is loaded: no load,
\* no synthesis, no directory creation, no write.  In every run each of
\* these happens at most once, in that order, the write only after the
\* synthesis returned, and a step that raised ends the run.
C8_LinearPipeline ==
    /\ BadSpeaker => (loads = 0 /\ synths = 0 /\ mkdirs = 0 /\ writes = 0)
    /\ failed_at \in {"speaker", "language"} => (BadSpeaker /\ pc = "exited")
    /\ pc \in {"load", "synthesize", "mkdir", "post_process", "write"}
          => ~BadSpeaker
    /\ loads <= 1 /\ synths <= 1 /\ mkdirs <= 1 /\ writes <= 1
    /\ synths = 1 => loads = 1
    /\ mkdirs = 1 => (synths = 1 /\ failed_at # "synthesize")
    /\ writes = 1 => (mkdirs = 1 /\ synths = 1 /\ request.kind # "none"
                        /\ failed_at \in {None, "write"})
    /\ failed_at # None => pc = "exited"
    /\ (failed_at = "load" => synths = 0) /\ (failed_at = "synthesize" => mkdirs = 0)
    /\ failed_at \in {"mkdir", "time_stretch"} => writes = 0

\* a model id without a language token was rejected with nothing loaded
C8_Witness ==
    /\ pc = "exited"
    /\ speaker_arg = <<"3", "/", "r", "u">>
    /\ failed_at = "language"
    /\ loads = 0 /\ writes = 0

\* sample * 32767 truncated toward zero, the sample in thousandths
Truncated(sample) ==
    IF sample >= 0 THEN (sample * 32767) \div 1000
    ELSE 0 - (((0 - sample) * 32767) \div 1000)

Sign(n) == IF n > 0 THEN 1 ELSE IF n < 0 THEN -1 ELSE 0

\* a sample in [-1, 1] becomes its product with 32767 truncated toward zero
QuantizedInRange(i) ==
    (-1000 <= audio[i] /\ audio[i] <= 1000) =>
        /\ pcm[i] = Truncated(audio[i])
        /\ -32767 <= pcm[i] /\ pcm[i] <= 32767
        /\ Sign(pcm[i]) \in {0, Sign(audio[i])}

C10_LanguageSelection ==
    /\ loads = 1 =>
          /\ SlashCount(speaker_arg) = 1
          /\ model_id = BeforeSlash(speaker_arg)
          /\ HasPair(model_id, "r", "u")
                => (language = "ru" /\ model_name = "v5_ru")
          /\ (HasPair(model_id, "e", "n") /\ ~HasPair(model_id, "r", "u"))
                => (language = "en" /\ model_name = "v3_en")
          /\ <<language, model_name>> \in {<<"ru", "v5_ru">>, <<"en", "v3_en">>}
    /\ request.kind # "none" =>
          (loads = 1 /\ request.speaker = AfterSlash(speaker_arg))

\* the model id 'enru' loaded the Russian model and speaker '3' was asked for
C10_Witness ==
    /\ speaker_arg = <<"e", "n", "r", "u", "/", "3">>
    /\ language = "ru" /\ model_name = "v5_ru"
    /\ loads = 1
    /\ request.speaker = <<"3">>

====
